---- MODULE Spec2Model ----
(***************************************************************************)
(* Boom and Crust Pizzeria (src/index.tsx): the economic derivation of the *)
(* App component (economicData, maxProfitData, minAtcData and the input    *)
(* handlers) and the Chart component (scales, zero-crossing split,         *)
(* createSmoothPath, tooltip).                                             *)
(*                                                                         *)
(* A JavaScript number is modelled as an exact fraction [n, d] in lowest   *)
(* terms with d >= 0:  d > 0 is the finite value n/d,  1/0 is Infinity,    *)
(* -1/0 is -Infinity and 0/0 is NaN.  Rounding of IEEE doubles is not      *)
(* modelled; `undefined` read from an array is modelled by NaN, which is   *)
(* what every arithmetic use and comparison of it in this program yields.  *)
(***************************************************************************)
EXTENDS Integers, Sequences, FiniteSets, TLC

VARIABLES
    labour,         \* App: useState(3)
    price,          \* App: useState(15)
    scheduleIndex,  \* App: useState(0), 0-based index into the catalog
    analysis,       \* App: useState({ text: '', isLoading: false })
    schedules,      \* the catalog the App is built over (PRODUCTION_SCHEDULES)
    datasets,       \* Chart: the `datasets` prop of a Chart instance
    tooltip,        \* Chart: useState(null)
    chartKind,      \* which component that instance is: "Chart" or "BarChart"
    savedScenarios, \* App: useState([])
    saveLog,        \* history: the scenario of the latest save of each name
                    \* since the last clear
    requests,       \* the generateContent calls awaited by handleAnalyzeCosts
    goalAchievedRef,\* App: useRef(false)
    effectDeps,     \* the goal effect's dependencies at its last run (<<>>
                    \* before its first run)
    goalPlayed,     \* whether the last run of the goal effect played 'goal'
    animValue,      \* AnimatedNumber: the `value` prop
    displayValue,   \* AnimatedNumber: useState(value)
    frameRef,       \* AnimatedNumber: useRef(null); 0 stands for null
    frames,         \* the animation-frame callbacks requested and not yet
                    \* fired or cancelled, each with its closure
    nextFrameId,    \* the id requestAnimationFrame returns next
    hasCleanup,     \* whether the last run of the AnimatedNumber effect
                    \* returned a cleanup function
    targetChanges   \* how many times the `value` prop has changed

storeVars == <<savedScenarios, saveLog>>

animVars == <<animValue, displayValue, frameRef, frames, nextFrameId,
              hasCleanup, targetChanges>>

goalVars == <<goalAchievedRef, effectDeps, goalPlayed>>

vars == <<labour, price, scheduleIndex, analysis, schedules, datasets, tooltip,
          chartKind, storeVars, requests, goalVars, animVars>>

-----------------------------------------------------------------------------
(* JavaScript numbers *)

Abs(a) == IF a < 0 THEN -a ELSE a

Sign(a) == IF a < 0 THEN -1 ELSE IF a > 0 THEN 1 ELSE 0

RECURSIVE GCD(_, _)
GCD(a, b) == IF b = 0 THEN a ELSE GCD(b, a % b)

\* the number n/d, normalised
Q(n, d) ==
    IF d = 0 THEN [n |-> Sign(n), d |-> 0]
    ELSE LET g == GCD(Abs(n), Abs(d))
         IN  [n |-> (Sign(d) * n) \div g, d |-> Abs(d) \div g]

Num(i) == [n |-> i, d |-> 1]

Infinity == [n |-> 1, d |-> 0]

NegInfinity == [n |-> -1, d |-> 0]

NaN == [n |-> 0, d |-> 0]

IsNaN(a) == a.d = 0 /\ a.n = 0

isFinite(a) == a.d # 0

Add(a, b) ==
    IF a.d = 0 /\ b.d = 0
    THEN (IF a.n = b.n THEN a ELSE NaN)
    ELSE Q(a.n * b.d + b.n * a.d, a.d * b.d)

Neg(a) == [n |-> -a.n, d |-> a.d]

Sub(a, b) == Add(a, Neg(b))

Mul(a, b) == Q(a.n * b.n, a.d * b.d)

Div(a, b) == Q(a.n * b.d * (IF b.n < 0 THEN -1 ELSE 1), a.d * Abs(b.n))

\* a < b
Lt(a, b) ==
    /\ ~IsNaN(a)
    /\ ~IsNaN(b)
    /\ IF a.d = 0 /\ b.d = 0 THEN a.n < b.n ELSE a.n * b.d < b.n * a.d

Gt(a, b) == Lt(b, a)

\* a === b
Eq(a, b) == ~IsNaN(a) /\ ~IsNaN(b) /\ a = b

Le(a, b) == Lt(a, b) \/ Eq(a, b)

Ge(a, b) == Le(b, a)

Zero == Num(0)

\* a || 0
OrZero(a) == IF IsNaN(a) \/ a = Zero THEN Zero ELSE a

-----------------------------------------------------------------------------
(* Data & configuration *)

LABOR_COST_PER_HOUR == 20

MAX_LABOUR == 10

SHIFT_HOURS == 8

\* the catalog with one digit of the first table dropped (70 typed as 7)
PRODUCTION_SCHEDULES_Typo ==
    << [name |-> "Standard Oven", fixedCost |-> 100,
        production |-> <<0, 10, 25, 45, 60, 7, 75, 77, 78, 78, 75>>],
       [name |-> "Conveyor Belt Oven", fixedCost |-> 200,
        production |-> <<0, 20, 50, 90, 140, 180, 210, 230, 240, 245, 248>>],
       [name |-> "Industrial Kitchen", fixedCost |-> 400,
        production |-> <<0, 30, 70, 120, 180, 250, 330, 420, 500, 560, 600>>] >>

PRODUCTION_SCHEDULES ==
    << [name |-> "Standard Oven", fixedCost |-> 100,
        production |-> <<0, 10, 25, 45, 60, 70, 75, 77, 78, 78, 75>>],
       [name |-> "Conveyor Belt Oven", fixedCost |-> 200,
        production |-> <<0, 20, 50, 90, 140, 180, 210, 230, 240, 245, 248>>],
       [name |-> "Industrial Kitchen", fixedCost |-> 400,
        production |-> <<0, 30, 70, 120, 180, 250, 330, 420, 500, 560, 600>>] >>

\* the price slider: min 5, max 25, step 0.5
PRICE_MIN == 5

PRICE_MAX == 25

SliderPrices == { Q(k, 2) : k \in (2 * PRICE_MIN)..(2 * PRICE_MAX) }

SliderLabours == 0..MAX_LABOUR

-----------------------------------------------------------------------------
(* App: derived data *)

productionSchedule == schedules[scheduleIndex + 1]

\* production[i]: the table is 0-indexed in the source; an index outside the
\* table reads `undefined`
ProductionAt(production, i) ==
    IF i >= 0 /\ i < Len(production) THEN Num(production[i + 1]) ELSE NaN

\* const totalProduction = productionSchedule.production[numLabour] || 0
TotalProduction(production, numLabour) ==
    OrZero(ProductionAt(production, numLabour))

\* as MarginalProduct, with both table indices one too low
MarginalProduct_Lagged(production, numLabour) ==
    IF numLabour > 1
    THEN Sub(ProductionAt(production, numLabour - 1),
             ProductionAt(production, numLabour - 2))
    ELSE ProductionAt(production, numLabour)

\* numLabour > 0 ? production[numLabour] - production[numLabour - 1] : production[numLabour]
MarginalProduct(production, numLabour) ==
    IF numLabour > 0
    THEN Sub(ProductionAt(production, numLabour),
             ProductionAt(production, numLabour - 1))
    ELSE ProductionAt(production, numLabour)

\* as VariableCost, without the 8-hour shift
VariableCost_NoShift(numLabour) == Num(numLabour * LABOR_COST_PER_HOUR)

\* numLabour * LABOR_COST_PER_HOUR * 8
VariableCost(numLabour) == Num(numLabour * LABOR_COST_PER_HOUR * SHIFT_HOURS)

\* as MarginalCost, without the marginalProduct > 0 test
MarginalCost_NoGuard(variableCost, numLabour, marginalProduct) ==
    Div(Sub(variableCost, VariableCost(numLabour - 1)), marginalProduct)

\* marginalProduct > 0 ? (variableCost - (numLabour - 1) * LABOR_COST_PER_HOUR * 8) / marginalProduct : Infinity
MarginalCost(variableCost, numLabour, marginalProduct) ==
    IF Gt(marginalProduct, Zero)
    THEN Div(Sub(variableCost,
                 Num((numLabour - 1) * LABOR_COST_PER_HOUR * SHIFT_HOURS)),
             marginalProduct)
    ELSE Infinity

\* as AverageTotalCost, of the variable cost alone
AverageTotalCost_VariableOnly(totalCost, totalProduction) ==
    IF Gt(totalProduction, Zero)
    THEN Div(Sub(totalCost, Num(100)), totalProduction)
    ELSE Infinity

\* totalProduction > 0 ? totalCost / totalProduction : Infinity
AverageTotalCost(totalCost, totalProduction) ==
    IF Gt(totalProduction, Zero)
    THEN Div(totalCost, totalProduction)
    ELSE Infinity

\* one element of dataPoints
DataPoint(sched, p, numLabour) ==
    LET totalProduction == TotalProduction(sched.production, numLabour)
        marginalProduct == MarginalProduct(sched.production, numLabour)
        totalRevenue == Mul(totalProduction, p)
        variableCost == VariableCost(numLabour)
        fixedCost == Num(sched.fixedCost)
        totalCost == Add(fixedCost, variableCost)
        totalProfit == Sub(totalRevenue, totalCost)
        marginalCost == MarginalCost(variableCost, numLabour, marginalProduct)
        averageTotalCost == AverageTotalCost(totalCost, totalProduction)
    IN  [labour |-> numLabour,
         totalProduction |-> totalProduction,
         marginalProduct |-> marginalProduct,
         totalRevenue |-> totalRevenue,
         variableCost |-> variableCost,
         fixedCost |-> fixedCost,
         totalCost |-> totalCost,
         totalProfit |-> totalProfit,
         marginalCost |-> marginalCost,
         averageTotalCost |-> averageTotalCost]

\* Array.from({ length: MAX_LABOUR + 1 }, (_, i) => ...), from index i on
RECURSIVE DataPointsFrom(_, _, _)
DataPointsFrom(sched, p, i) ==
    IF i > MAX_LABOUR THEN <<>>
    ELSE <<DataPoint(sched, p, i)>> \o DataPointsFrom(sched, p, i + 1)

\* the record sequence for a schedule and a price; element i+1 is labour i
EconomicDataOf(sched, p) == DataPointsFrom(sched, p, 0)

economicData == EconomicDataOf(productionSchedule, price)

currentData == economicData[labour + 1]

\* as ReduceMaxProfit, with >= for >
RECURSIVE ReduceMaxProfit_KeepLast(_, _, _)
ReduceMaxProfit_KeepLast(data, i, max) ==
    IF i > Len(data) THEN max
    ELSE ReduceMaxProfit_KeepLast(data, i + 1,
            IF Ge(data[i].totalProfit, max.totalProfit) THEN data[i] ELSE max)

\* data.reduce((max, current) => current.totalProfit > max.totalProfit ? current : max, data[0])
RECURSIVE ReduceMaxProfit(_, _, _)
ReduceMaxProfit(data, i, max) ==
    IF i > Len(data) THEN max
    ELSE ReduceMaxProfit(data, i + 1,
            IF Gt(data[i].totalProfit, max.totalProfit) THEN data[i] ELSE max)

MaxProfitOf(data) == ReduceMaxProfit(data, 1, data[1])

maxProfitData == MaxProfitOf(economicData)

\* as FilterValid, without the labour > 0 test
RECURSIVE FilterValid_AnyLabour(_)
FilterValid_AnyLabour(data) ==
    IF data = <<>> THEN <<>>
    ELSE LET d == Head(data)
         IN  (IF isFinite(d.averageTotalCost) THEN <<d>> ELSE <<>>)
             \o FilterValid_AnyLabour(Tail(data))

\* economicData.filter(d => isFinite(d.averageTotalCost) && d.labour > 0)
RECURSIVE FilterValid(_)
FilterValid(data) ==
    IF data = <<>> THEN <<>>
    ELSE LET d == Head(data)
         IN  (IF isFinite(d.averageTotalCost) /\ d.labour > 0 THEN <<d>> ELSE <<>>)
             \o FilterValid(Tail(data))

\* validData.reduce((min, current) => current.averageTotalCost < min.averageTotalCost ? current : min, validData[0])
RECURSIVE ReduceMinAtc(_, _, _)
ReduceMinAtc(validData, i, min) ==
    IF i > Len(validData) THEN min
    ELSE ReduceMinAtc(validData, i + 1,
            IF Lt(validData[i].averageTotalCost, min.averageTotalCost)
            THEN validData[i] ELSE min)

MinAtcOf(data) ==
    LET validData == FilterValid(data)
    IN  IF Len(validData) = 0 THEN data[1]
        ELSE ReduceMinAtc(validData, 1, validData[1])

minAtcData == MinAtcOf(economicData)

-----------------------------------------------------------------------------
(* App: chart datasets.  A dataset is [label, data]; a point is [x, y].    *)
(* The colour of a dataset is styling and is left out.                     *)

RECURSIVE MapPoints(_, _)
\* economicData.map(d => ({ x: d.labour, y: d[field] }))
MapPoints(data, field) ==
    IF data = <<>> THEN <<>>
    ELSE <<[x |-> Num(Head(data).labour), y |-> Head(data)[field]]>>
         \o MapPoints(Tail(data), field)

\* as FilterFiniteY, dropping nothing
FilterFiniteY_KeepAll(points) == points

RECURSIVE FilterFiniteY(_)
\* points.filter(d => isFinite(d.y))
FilterFiniteY(points) ==
    IF points = <<>> THEN <<>>
    ELSE (IF isFinite(Head(points).y) THEN <<Head(points)>> ELSE <<>>)
         \o FilterFiniteY(Tail(points))

productionChartData ==
    << [label |-> "Total Production",
        data |-> MapPoints(economicData, "totalProduction")],
       [label |-> "Marginal Product of Labour",
        data |-> MapPoints(economicData, "marginalProduct")] >>

costChartData ==
    << [label |-> "Marginal Cost",
        data |-> FilterFiniteY(MapPoints(economicData, "marginalCost"))],
       [label |-> "Average Total Cost",
        data |-> FilterFiniteY(MapPoints(economicData, "averageTotalCost"))] >>

profitChartData ==
    << [label |-> "Total Profit",
        data |-> MapPoints(economicData, "totalProfit")] >>

-----------------------------------------------------------------------------
(* Chart *)

svgWidth == 320

svgHeight == 200

marginTop == 20

marginRight == 20

marginBottom == 30

marginLeft == 40

width == svgWidth - marginLeft - marginRight

height == svgHeight - marginTop - marginBottom

RECURSIVE allPoints(_)
\* datasets.flatMap(ds => ds.data)
allPoints(dss) ==
    IF dss = <<>> THEN <<>> ELSE Head(dss).data \o allPoints(Tail(dss))

RECURSIVE MathMax(_, _)
\* Math.max(acc, ...values)
MathMax(acc, values) ==
    IF values = <<>> THEN acc
    ELSE MathMax(IF IsNaN(acc) \/ IsNaN(Head(values)) THEN NaN
                 ELSE IF Gt(Head(values), acc) THEN Head(values) ELSE acc,
                 Tail(values))

RECURSIVE MathMin(_, _)
\* Math.min(acc, ...values)
MathMin(acc, values) ==
    IF values = <<>> THEN acc
    ELSE MathMin(IF IsNaN(acc) \/ IsNaN(Head(values)) THEN NaN
                 ELSE IF Lt(Head(values), acc) THEN Head(values) ELSE acc,
                 Tail(values))

RECURSIVE yValues(_)
\* allPoints.map(d => Number(d.y)).filter(isFinite)
yValues(points) ==
    IF points = <<>> THEN <<>>
    ELSE (IF isFinite(Head(points).y) THEN <<Head(points).y>> ELSE <<>>)
         \o yValues(Tail(points))

RECURSIVE xValues(_)
\* allPoints.map(d => d.x)
xValues(points) ==
    IF points = <<>> THEN <<>>
    ELSE <<Head(points).x>> \o xValues(Tail(points))

\* maxY, minY, maxX, minX of a Chart rendered with datasets dss
ChartDomain(dss) ==
    LET pts == allPoints(dss)
        ys == yValues(pts)
        xs == xValues(pts)
    IN  [maxY |-> MathMax(Zero, ys),
         minY |-> MathMin(Zero, ys),
         maxX |-> MathMax(NegInfinity, xs),
         minX |-> MathMin(Infinity, xs)]

\* as xScale, without the maxX === minX test
xScale_NoGuard(dom, x) ==
    Mul(Div(Sub(x, dom.minX), Sub(dom.maxX, dom.minX)), Num(width))

xScale(dom, x) ==
    IF Eq(dom.maxX, dom.minX) THEN Q(width, 2)
    ELSE Mul(Div(Sub(x, dom.minX), Sub(dom.maxX, dom.minX)), Num(width))

yScale(dom, y) ==
    IF Eq(dom.maxY, dom.minY) THEN Q(height, 2)
    ELSE Sub(Num(height),
             Mul(Div(Sub(y, dom.minY), Sub(dom.maxY, dom.minY)), Num(height)))

\* maxY, minY of a BarChart rendered with datasets dss
BarChartDomain(dss) ==
    LET ys == yValues(allPoints(dss))
    IN  [maxY |-> MathMax(Zero, ys), minY |-> MathMin(Zero, ys)]

BarChart_yScale(dom, y) ==
    IF Eq(dom.maxY, dom.minY) THEN Q(height, 2)
    ELSE Sub(Num(height),
             Mul(Div(Sub(y, dom.minY), Sub(dom.maxY, dom.minY)), Num(height)))

RECURSIVE ScalePoints(_, _)
\* points.map(p => ({ x: xScale(p.x), y: yScale(p.y) }))
ScalePoints(dom, points) ==
    IF points = <<>> THEN <<>>
    ELSE <<[x |-> xScale(dom, Head(points).x), y |-> yScale(dom, Head(points).y)]>>
         \o ScalePoints(dom, Tail(points))

tension == Q(1, 2)

\* one ` C cp1 cp2 p2` command: the segment from scaledPoints[j] to
\* scaledPoints[j + 1] (j is 1-based; the source's i is j - 1)
CurveTo(scaledPoints, j) ==
    LET n == Len(scaledPoints)
        p0 == IF j > 1 THEN scaledPoints[j - 1] ELSE scaledPoints[j]
        p1 == scaledPoints[j]
        p2 == scaledPoints[j + 1]
        p3 == IF j < n - 1 THEN scaledPoints[j + 2] ELSE p2
        t1x == Mul(Sub(p2.x, p0.x), tension)
        t1y == Mul(Sub(p2.y, p0.y), tension)
        t2x == Mul(Sub(p3.x, p1.x), tension)
        t2y == Mul(Sub(p3.y, p1.y), tension)
    IN  [c |-> "C",
         x1 |-> Add(p1.x, t1x), y1 |-> Add(p1.y, t1y),
         x2 |-> Sub(p2.x, t2x), y2 |-> Sub(p2.y, t2y),
         x |-> p2.x, y |-> p2.y]

RECURSIVE Curves(_, _, _)
\* the loop body for i = j - 1 .. last
Curves(scaledPoints, j, last) ==
    IF j > last THEN <<>>
    ELSE <<CurveTo(scaledPoints, j)>> \o Curves(scaledPoints, j + 1, last)

MoveTo(pt) == [c |-> "M", x |-> pt.x, y |-> pt.y]

LineTo(pt) == [c |-> "L", x |-> pt.x, y |-> pt.y]

\* as createSmoothPath, with the loop ending one segment early
createSmoothPath_ShortLoop(dom, points) ==
    IF Len(points) < 2 THEN <<>>
    ELSE LET scaledPoints == ScalePoints(dom, points)
         IN  IF Len(scaledPoints) = 2
             THEN <<MoveTo(scaledPoints[1]), LineTo(scaledPoints[2])>>
             ELSE <<MoveTo(scaledPoints[1])>>
                  \o Curves(scaledPoints, 1, Len(scaledPoints) - 2)

\* the path as the sequence of its commands; '' is the empty sequence
createSmoothPath(dom, points) ==
    IF Len(points) < 2 THEN <<>>
    ELSE LET scaledPoints == ScalePoints(dom, points)
         IN  IF Len(scaledPoints) = 2
             THEN <<MoveTo(scaledPoints[1]), LineTo(scaledPoints[2])>>
             ELSE <<MoveTo(scaledPoints[1])>>
                  \o Curves(scaledPoints, 1, Len(scaledPoints) - 1)

RECURSIVE FilterNonNegative(_)
\* ds.data.filter(d => d.y >= 0)
FilterNonNegative(data) ==
    IF data = <<>> THEN <<>>
    ELSE (IF Ge(Head(data).y, Zero) THEN <<Head(data)>> ELSE <<>>)
         \o FilterNonNegative(Tail(data))

RECURSIVE FilterNonPositive(_)
\* ds.data.filter(d => d.y <= 0)
FilterNonPositive(data) ==
    IF data = <<>> THEN <<>>
    ELSE (IF Le(Head(data).y, Zero) THEN <<Head(data)>> ELSE <<>>)
         \o FilterNonPositive(Tail(data))

\* the test of the intersection scan on the pair data[j], data[j + 1]
SignChange(data, j) ==
    \/ Ge(data[j].y, Zero) /\ Lt(data[j + 1].y, Zero)
    \/ Le(data[j].y, Zero) /\ Gt(data[j + 1].y, Zero)

RECURSIVE FirstSignChange(_, _)
\* the first j >= from at which the scan breaks; 0 when the loop runs out
FirstSignChange(data, from) ==
    IF from > Len(data) - 1 THEN 0
    ELSE IF SignChange(data, from) THEN from
    ELSE FirstSignChange(data, from + 1)

\* p1.x - p1.y * (p2.x - p1.x) / (p2.y - p1.y)
Interpolate(p1, p2) ==
    Sub(p1.x, Div(Mul(p1.y, Sub(p2.x, p1.x)), Sub(p2.y, p1.y)))

\* positiveData and negativeData as handed to createSmoothPath
SplitSeries(data) ==
    LET positiveData == FilterNonNegative(data)
        negativeData == FilterNonPositive(data)
        j == FirstSignChange(data, 1)
    IN  IF j = 0 \/ ~(Sub(data[j + 1].y, data[j].y) # Zero)
        THEN [positiveData |-> positiveData, negativeData |-> negativeData]
        ELSE LET intersectionPoint ==
                     [x |-> Interpolate(data[j], data[j + 1]), y |-> Zero]
             IN  IF Ge(data[j].y, Zero)
                 THEN [positiveData |-> Append(positiveData, intersectionPoint),
                       negativeData |-> <<intersectionPoint>> \o negativeData]
                 ELSE [positiveData |-> <<intersectionPoint>> \o positiveData,
                       negativeData |-> Append(negativeData, intersectionPoint)]

HasSplitTreatment(ds) ==
    ds.label = "Marginal Product of Labour" \/ ds.label = "Total Profit"

RECURSIVE PathInputs(_)
\* every point list the Chart hands to createSmoothPath, in rendering order
PathInputs(dss) ==
    IF dss = <<>> THEN <<>>
    ELSE (IF HasSplitTreatment(Head(dss))
          THEN <<SplitSeries(Head(dss).data).positiveData,
                 SplitSeries(Head(dss).data).negativeData>>
          ELSE <<Head(dss).data>>)
         \o PathInputs(Tail(dss))

RECURSIVE UniqueValues(_)
\* [...new Set(xs)]: the distinct x values, in order of first occurrence
UniqueValues(xs) ==
    IF xs = <<>> THEN <<>>
    ELSE LET rest == UniqueValues(SubSeq(xs, 1, Len(xs) - 1))
             last == xs[Len(xs)]
         IN  IF \E k \in 1..Len(rest) : rest[k] = last THEN rest
             ELSE Append(rest, last)

RECURSIVE InsertSorted(_, _)
InsertSorted(sorted, v) ==
    IF sorted = <<>> THEN <<v>>
    ELSE IF Lt(v, Head(sorted)) THEN <<v>> \o sorted
    ELSE <<Head(sorted)>> \o InsertSorted(Tail(sorted), v)

RECURSIVE SortAscending(_)
\* xs.sort((a, b) => Number(a) - Number(b)), of finite numbers
SortAscending(xs) ==
    IF xs = <<>> THEN <<>>
    ELSE InsertSorted(SortAscending(SubSeq(xs, 1, Len(xs) - 1)), xs[Len(xs)])

\* the columns of a chart: Chart's uniqueXValues, BarChart's xValues
uniqueXValues(xs) == SortAscending(UniqueValues(xs))

RECURSIVE FindPoint(_, _)
\* ds.data.find(p => p.x === xValue), as a list of at most one point
FindPoint(data, xValue) ==
    IF data = <<>> THEN <<>>
    ELSE IF Eq(Head(data).x, xValue) THEN <<Head(data)>>
    ELSE FindPoint(Tail(data), xValue)

\* as pointsForX, stopping at the first series that has a point
pointsForX_FirstOnly(dss, xValue) ==
    IF dss = <<>> THEN <<>>
    ELSE LET point == FindPoint(Head(dss).data, xValue)
         IN  IF point # <<>>
             THEN <<[x |-> point[1].x, y |-> point[1].y, label |-> Head(dss).label]>>
             ELSE <<>>

RECURSIVE pointsForX(_, _)
\* datasets.map(ds => point ? { ...point, label: ds.label } : null).filter(Boolean)
pointsForX(dss, xValue) ==
    IF dss = <<>> THEN <<>>
    ELSE LET point == FindPoint(Head(dss).data, xValue)
         IN  (IF point # <<>>
              THEN <<[x |-> point[1].x, y |-> point[1].y, label |-> Head(dss).label]>>
              ELSE <<>>)
             \o pointsForX(Tail(dss), xValue)

RECURSIVE SumY(_, _, _)
\* yPositions.reduce((sum, y) => sum + y, 0)
SumY(dom, points, sum) ==
    IF points = <<>> THEN sum
    ELSE SumY(dom, Tail(points), Add(sum, yScale(dom, Head(points).y)))

\* the tooltip is null (the empty list) or one tooltip record
NullTooltip == <<>>

InitChartState == tooltip = NullTooltip

\* Chart's handleMouseOver(xValue)
handleMouseOverColumn(xValue) ==
    LET dom == ChartDomain(datasets)
        pts == pointsForX(datasets, xValue)
    IN  IF Len(pts) > 0
        THEN tooltip' = << [x |-> xValue,
                            points |-> pts,
                            svgX |-> xScale(dom, xValue),
                            svgY |-> Div(SumY(dom, pts, Zero), Num(Len(pts)))] >>
        ELSE tooltip' = tooltip

\* the hit region of each column calls it with the column's x
handleMouseOver ==
    /\ chartKind = "Chart"
    /\ \E k \in 1..Len(uniqueXValues(xValues(allPoints(datasets)))) :
          handleMouseOverColumn(uniqueXValues(xValues(allPoints(datasets)))[k])
    /\ UNCHANGED <<labour, price, scheduleIndex, analysis, schedules, datasets>>
    /\ UNCHANGED <<chartKind, storeVars, requests, goalVars>>
    /\ UNCHANGED animVars

handleMouseLeave ==
    /\ chartKind = "Chart"
    /\ tooltip' = NullTooltip
    /\ UNCHANGED <<labour, price, scheduleIndex, analysis, schedules, datasets>>
    /\ UNCHANGED <<chartKind, storeVars, requests, goalVars>>
    /\ UNCHANGED animVars

\* BarChart

\* xValues.length > 0 ? width / xValues.length : width
bandWidth(columns) ==
    IF Len(columns) > 0 THEN Q(width, Len(columns)) ELSE Num(width)

RECURSIVE IndexOfFrom(_, _, _)
IndexOfFrom(columns, x, i) ==
    IF i > Len(columns) THEN -1
    ELSE IF columns[i] = x THEN i - 1
    ELSE IndexOfFrom(columns, x, i + 1)

\* index === -1 ? 0 : index * bandWidth
getXPosition(columns, x) ==
    LET index == IndexOfFrom(columns, x, 1)
    IN  IF index = -1 THEN Zero ELSE Mul(Num(index), bandWidth(columns))

RECURSIVE BarChart_SumY(_, _, _)
BarChart_SumY(dom, points, sum) ==
    IF points = <<>> THEN sum
    ELSE BarChart_SumY(dom, Tail(points),
                       Add(sum, BarChart_yScale(dom, Head(points).y)))

\* BarChart's handleMouseOver(xValue)
BarChart_handleMouseOverColumn(xValue) ==
    LET dom == BarChartDomain(datasets)
        columns == uniqueXValues(xValues(allPoints(datasets)))
        pts == pointsForX(datasets, xValue)
    IN  IF Len(pts) > 0
        THEN tooltip' = << [x |-> xValue,
                            points |-> pts,
                            svgX |-> Add(getXPosition(columns, xValue),
                                         Div(bandWidth(columns), Num(2))),
                            svgY |-> Div(BarChart_SumY(dom, pts, Zero),
                                         Num(Len(pts)))] >>
        ELSE tooltip' = tooltip

BarChart_handleMouseOver ==
    /\ chartKind = "BarChart"
    /\ \E k \in 1..Len(uniqueXValues(xValues(allPoints(datasets)))) :
          BarChart_handleMouseOverColumn(
              uniqueXValues(xValues(allPoints(datasets)))[k])
    /\ UNCHANGED <<labour, price, scheduleIndex, analysis, schedules, datasets>>
    /\ UNCHANGED <<chartKind, storeVars, requests, goalVars>>
    /\ UNCHANGED animVars

BarChart_handleMouseLeave ==
    /\ chartKind = "BarChart"
    /\ tooltip' = NullTooltip
    /\ UNCHANGED <<labour, price, scheduleIndex, analysis, schedules, datasets>>
    /\ UNCHANGED <<chartKind, storeVars, requests, goalVars>>
    /\ UNCHANGED animVars

-----------------------------------------------------------------------------
(* AnimatedNumber: one instance. A change of its `value` prop, the render, *)
(* the cleanup of the previous effect run and the effect run are one step  *)
(* (the prop changes in renders of discrete events, whose effects React    *)
(* flushes with the commit); each animation frame is another step.         *)

duration == 500

InitAnimatedNumber(value) ==
    /\ animValue = value
    /\ displayValue = value
    /\ frameRef = 0
    /\ frames = {}
    /\ nextFrameId = 1
    /\ hasCleanup = FALSE
    /\ targetChanges = 0

\* cancelAnimationFrame(id) on the callbacks pending
CancelFrame(pending, id) == { f \in pending : f.id # id }

\* if (frameRef.current) cancelAnimationFrame(frameRef.current)
CancelCurrent(pending) ==
    IF frameRef # 0 THEN CancelFrame(pending, frameRef) ELSE pending

\* 1 - Math.pow(1 - percentage, 3)
easedPercentage(percentage) ==
    LET pow3(u) == Mul(Mul(u, u), u)
    IN  CHOOSE eased \in { Sub(Num(1), p) :
                p \in { pow3(u) : u \in {Sub(Num(1), percentage)} } } : TRUE

\* the effect run for the new value, after the cleanup of the previous run;
\* `run` numbers the effect run that made the closure
EffectRun(value, pending) ==
    LET startValue == displayValue
        endValue == value
    IN  IF Eq(startValue, endValue)
        THEN /\ frames' = pending
             /\ hasCleanup' = FALSE
             /\ UNCHANGED <<frameRef, nextFrameId>>
        ELSE /\ frames' = CancelCurrent(pending) \cup
                    { [id |-> nextFrameId, startValue |-> startValue,
                       endValue |-> endValue, started |-> FALSE,
                       elapsed |-> 0, run |-> targetChanges + 1] }
             /\ frameRef' = nextFrameId
             /\ nextFrameId' = nextFrameId + 1
             /\ hasCleanup' = TRUE

\* as EffectRun, with a cleanup and a run that cancel nothing
valueChanges_NoCancel(value) ==
    /\ value # animValue
    /\ animValue' = value
    /\ targetChanges' = targetChanges + 1
    /\ IF Eq(displayValue, value)
       THEN /\ frames' = frames
            /\ hasCleanup' = FALSE
            /\ UNCHANGED <<frameRef, nextFrameId>>
       ELSE /\ frames' = frames \cup
                   { [id |-> nextFrameId, startValue |-> displayValue,
                      endValue |-> value, started |-> FALSE,
                      elapsed |-> 0, run |-> targetChanges + 1] }
            /\ frameRef' = nextFrameId
            /\ nextFrameId' = nextFrameId + 1
            /\ hasCleanup' = TRUE
    /\ UNCHANGED displayValue

\* the parent renders the instance with another value
valueChanges(value) ==
    /\ value # animValue
    /\ animValue' = value
    /\ targetChanges' = targetChanges + 1
    /\ EffectRun(value, IF hasCleanup THEN CancelCurrent(frames) ELSE frames)
    /\ UNCHANGED displayValue

\* the browser fires the pending callback f, dt ms after the frame before;
\* timestamp - startTime is 0 at the first frame of an animation (the
\* locals are bound one by one, so that each is computed once)
animate(f, dt) ==
    \E progress \in {IF f.started THEN f.elapsed + dt ELSE 0} :
    \E percentage \in {MathMin(Num(1), <<Q(progress, duration)>>)} :
    \E easedPercentage_ \in {easedPercentage(percentage)} :
    \E range \in {Sub(f.endValue, f.startValue)} :
    \E step \in {Mul(range, easedPercentage_)} :
    \E currentValue \in {Add(f.startValue, step)} :
        IF progress < duration
        THEN /\ displayValue' = currentValue
             /\ frames' = (frames \ {f}) \cup
                    { [f EXCEPT !.id = nextFrameId, !.started = TRUE,
                                !.elapsed = progress] }
             /\ frameRef' = nextFrameId
             /\ nextFrameId' = nextFrameId + 1
        ELSE /\ displayValue' = f.endValue
             /\ frames' = frames \ {f}
             /\ UNCHANGED <<frameRef, nextFrameId>>

-----------------------------------------------------------------------------
(* App: state and handlers *)

NoAnalysis == [text |-> "", isLoading |-> FALSE]

InitApp ==
    /\ labour = 3
    /\ price = Num(15)
    /\ scheduleIndex = 0
    /\ analysis = NoAnalysis
    /\ savedScenarios = <<>>
    /\ saveLog = {}
    /\ requests = <<>>
    /\ goalAchievedRef = FALSE
    /\ effectDeps = <<>>
    /\ goalPlayed = FALSE

\* the App over the shipped catalog; the Chart instance that `datasets` and
\* `tooltip` describe is studied on its own under SpecChart and has no series
\* here (the App's three charts are productionChartData, costChartData and
\* profitChartData, derived from the App state)
Init ==
    /\ InitApp
    /\ schedules = PRODUCTION_SCHEDULES
    /\ datasets = <<>>
    /\ chartKind = "Chart"
    /\ InitChartState
    /\ InitAnimatedNumber(Zero)

handleLabourChange ==
    /\ \E v \in SliderLabours : labour' = v
    /\ UNCHANGED <<price, scheduleIndex, analysis, schedules, datasets, tooltip>>
    /\ UNCHANGED <<chartKind, storeVars, requests, goalVars>>
    /\ UNCHANGED animVars

handlePriceChange ==
    /\ \E v \in SliderPrices : price' = v
    /\ UNCHANGED <<labour, scheduleIndex, analysis, schedules, datasets, tooltip>>
    /\ UNCHANGED <<chartKind, storeVars, requests, goalVars>>
    /\ UNCHANGED animVars

handleScheduleChange_Cancels ==
    /\ \E index \in 0..(Len(schedules) - 1) : scheduleIndex' = index
    /\ analysis' = NoAnalysis
    /\ requests' = <<>>
    /\ UNCHANGED <<labour, price, schedules, datasets, tooltip>>
    /\ UNCHANGED <<chartKind, storeVars, goalVars>>
    /\ UNCHANGED animVars

handleScheduleChange ==
    /\ \E index \in 0..(Len(schedules) - 1) : scheduleIndex' = index
    /\ analysis' = NoAnalysis
    /\ UNCHANGED <<labour, price, schedules, datasets, tooltip>>
    /\ UNCHANGED <<chartKind, storeVars, requests, goalVars>>
    /\ UNCHANGED animVars

handleOptimizeProduction ==
    /\ UNCHANGED <<price, scheduleIndex, analysis, schedules, datasets, tooltip>>
    /\ UNCHANGED <<chartKind, storeVars, requests, goalVars>>
    /\ UNCHANGED animVars
    /\ labour' = minAtcData.labour

Next ==
    \/ handleLabourChange
    \/ handlePriceChange
    \/ handleScheduleChange
    \/ handleOptimizeProduction

Spec == Init /\ [][Next]_vars

-----------------------------------------------------------------------------
(* Scenario store *)

\* the record handleSaveScenario builds (its `icon`, which the catalog of
\* this model leaves out, is display only)
newScenario ==
    LET best == maxProfitData
    IN  [name |-> productionSchedule.name,
         maxProfit |-> best.totalProfit,
         optimalLabour |-> best.labour,
         priceAtSave |-> price,
         mcAtMaxProfit |-> best.marginalCost,
         atcAtMaxProfit |-> best.averageTotalCost]

RECURSIVE FindIndexFrom(_, _, _)
FindIndexFrom(prev, name, i) ==
    IF i > Len(prev) THEN -1
    ELSE IF prev[i].name = name THEN i - 1
    ELSE FindIndexFrom(prev, name, i + 1)

\* prev.findIndex(s => s.name === name): 0-based, -1 when there is none
findIndex(prev, name) == FindIndexFrom(prev, name, 1)

Upsert_AlwaysAppend(prev, scenario) == Append(prev, scenario)

Upsert_MoveToEnd(prev, scenario) ==
    Append(SelectSeq(prev, LAMBDA s : s.name # scenario.name), scenario)

\* the updater handed to setSavedScenarios
Upsert(prev, scenario) ==
    LET existingIndex == findIndex(prev, scenario.name)
    IN  IF existingIndex > -1
        THEN [prev EXCEPT ![existingIndex + 1] = scenario]
        ELSE Append(prev, scenario)

handleSaveScenario ==
    /\ LET scenario == newScenario
       IN  /\ savedScenarios' = Upsert(savedScenarios, scenario)
           /\ saveLog' = { s \in saveLog : s.name # scenario.name }
                             \cup {scenario}
    /\ UNCHANGED <<labour, price, scheduleIndex, analysis, schedules>>
    /\ UNCHANGED <<datasets, tooltip, chartKind, requests, goalVars>>
    /\ UNCHANGED animVars

\* the Clear button is rendered only while the list is not empty
handleClearScenarios ==
    /\ Len(savedScenarios) > 0
    /\ savedScenarios' = <<>>
    /\ saveLog' = {}
    /\ UNCHANGED <<labour, price, scheduleIndex, analysis, schedules>>
    /\ UNCHANGED <<datasets, tooltip, chartKind, requests, goalVars>>
    /\ UNCHANGED animVars

\* The store under saves and clears interleaved with capital changes and
\* with the price and labour sliders moved among a few positions.
StorePrices == {Num(5), Num(15), Q(31, 2)}

StoreLabours == {3, 4}

NextStore ==
    \/ handleSaveScenario
    \/ handleClearScenarios
    \/ handleScheduleChange
    \/ handlePriceChange /\ price' \in StorePrices
    \/ handleLabourChange /\ labour' \in StoreLabours

SpecStore == Init /\ [][NextStore]_vars

-----------------------------------------------------------------------------
(* Cost analysis: handleAnalyzeCosts up to its await, and its continuation *)
(* when the awaited generateContent call resolves or rejects.              *)

\* the number of generateContent calls awaited at once
MaxRequests == 2

ApologyText == "Sorry, an error occurred while analyzing the data."

\* a call carries the prompt; of the prompt the model keeps the setup it
\* names, and the text generated for it is identified by that setup
responseText(request) == request.setup

RemoveAt(seq, k) == SubSeq(seq, 1, k - 1) \o SubSeq(seq, k + 1, Len(seq))

\* the button is disabled while analysis.isLoading; the try block reaches
\* the await ...
handleAnalyzeCosts_Awaits ==
    /\ ~analysis.isLoading
    /\ Len(requests) < MaxRequests
    /\ analysis' = [text |-> "", isLoading |-> TRUE]
    /\ requests' = Append(requests, [setup |-> productionSchedule.name])
    /\ UNCHANGED <<labour, price, scheduleIndex, schedules>>
    /\ UNCHANGED <<datasets, tooltip, chartKind, storeVars, goalVars>>
    /\ UNCHANGED animVars

\* ... or throws before it (the client constructor, without an API key), and
\* the catch block runs in the same call
handleAnalyzeCosts_Throws ==
    /\ ~analysis.isLoading
    /\ analysis' = [text |-> ApologyText, isLoading |-> FALSE]
    /\ UNCHANGED <<labour, price, scheduleIndex, schedules, requests>>
    /\ UNCHANGED <<datasets, tooltip, chartKind, storeVars, goalVars>>
    /\ UNCHANGED animVars

handleAnalyzeCosts ==
    \/ handleAnalyzeCosts_Awaits
    \/ handleAnalyzeCosts_Throws

generateContentResolves(k) ==
    /\ k \in 1..Len(requests)
    /\ analysis' = [text |-> responseText(requests[k]), isLoading |-> FALSE]
    /\ requests' = RemoveAt(requests, k)
    /\ UNCHANGED <<labour, price, scheduleIndex, schedules>>
    /\ UNCHANGED <<datasets, tooltip, chartKind, storeVars, goalVars>>
    /\ UNCHANGED animVars

generateContentRejects_Retries(k) ==
    /\ k \in 1..Len(requests)
    /\ analysis' = [text |-> "", isLoading |-> TRUE]
    /\ requests' = Append(RemoveAt(requests, k), requests[k])
    /\ UNCHANGED <<labour, price, scheduleIndex, schedules>>
    /\ UNCHANGED <<datasets, tooltip, chartKind, storeVars, goalVars>>
    /\ UNCHANGED animVars

generateContentRejects(k) ==
    /\ k \in 1..Len(requests)
    /\ analysis' = [text |-> ApologyText, isLoading |-> FALSE]
    /\ requests' = RemoveAt(requests, k)
    /\ UNCHANGED <<labour, price, scheduleIndex, schedules>>
    /\ UNCHANGED <<datasets, tooltip, chartKind, storeVars, goalVars>>
    /\ UNCHANGED animVars

NextAnalysis ==
    \/ handleAnalyzeCosts
    \/ \E k \in 1..MaxRequests : generateContentResolves(k)
    \/ \E k \in 1..MaxRequests : generateContentRejects(k)
    \/ handleScheduleChange
    \/ handleLabourChange /\ labour' \in StoreLabours

SpecAnalysis == Init /\ [][NextAnalysis]_vars

-----------------------------------------------------------------------------
(* The goal effect: React runs it after the first render and after every   *)
(* render in which one of its dependencies changed, before the next event  *)
(* is handled.                                                             *)

\* Math.abs
MathAbs(a) == IF Lt(a, Zero) THEN Neg(a) ELSE a

\* [currentData.totalProfit, maxProfitData.totalProfit]
goalDeps == <<currentData.totalProfit, maxProfitData.totalProfit>>

GoalTolerance == Q(1, 100)

\* isGoalAchieved, of the dependencies the effect run sees
isGoalAchieved(deps) ==
    LET isProfitCloseEnough ==
            Lt(MathAbs(Sub(deps[1], deps[2])), GoalTolerance)
    IN  Gt(deps[1], Zero) /\ isProfitCloseEnough

\* as goalEffect, playing at every run that finds the goal achieved
goalEffect_NoLatch ==
    /\ effectDeps # goalDeps
    /\ IF isGoalAchieved(goalDeps)
       THEN goalPlayed' = TRUE /\ goalAchievedRef' = TRUE
       ELSE goalPlayed' = FALSE /\ goalAchievedRef' = FALSE
    /\ effectDeps' = goalDeps
    /\ UNCHANGED <<labour, price, scheduleIndex, analysis, schedules>>
    /\ UNCHANGED <<datasets, tooltip, chartKind, storeVars, requests>>
    /\ UNCHANGED animVars

goalEffect ==
    /\ effectDeps # goalDeps
    /\ IF isGoalAchieved(goalDeps) /\ ~goalAchievedRef
       THEN goalPlayed' = TRUE /\ goalAchievedRef' = TRUE
       ELSE IF ~isGoalAchieved(goalDeps)
       THEN goalPlayed' = FALSE /\ goalAchievedRef' = FALSE
       ELSE goalPlayed' = FALSE /\ goalAchievedRef' = goalAchievedRef
    /\ effectDeps' = goalDeps
    /\ UNCHANGED <<labour, price, scheduleIndex, analysis, schedules>>
    /\ UNCHANGED <<datasets, tooltip, chartKind, storeVars, requests>>
    /\ UNCHANGED animVars

\* no run of the effect is due
EffectsFlushed == effectDeps = goalDeps

\* The App with the goal effect, the price slider moved among a few
\* positions.
GoalPrices == {Num(5), Num(15), Q(31, 2), Num(16)}

NextGoal ==
    \/ goalEffect
    \/ EffectsFlushed /\ handleLabourChange
    \/ EffectsFlushed /\ handlePriceChange /\ price' \in GoalPrices
    \/ EffectsFlushed /\ handleScheduleChange
    \/ EffectsFlushed /\ handleOptimizeProduction

SpecGoal == Init /\ [][NextGoal]_vars

-----------------------------------------------------------------------------
(* An AnimatedNumber on its own: its value changes among a few targets, at *)
(* most MaxTargetChanges times, and the frames requested fire one or two   *)
(* quarters of a second apart.                                             *)

MaxTargetChanges == 3

Targets == {Zero, Num(45), Num(60)}

FrameSteps == {250, 500}

InitAnimated ==
    /\ InitApp
    /\ schedules = PRODUCTION_SCHEDULES
    /\ datasets = <<>>
    /\ chartKind = "Chart"
    /\ InitChartState
    /\ \E value \in Targets : InitAnimatedNumber(value)

appVars == <<labour, price, scheduleIndex, analysis, schedules, datasets,
             tooltip, chartKind, storeVars, requests, goalVars>>

render ==
    /\ targetChanges < MaxTargetChanges
    /\ \E value \in Targets : valueChanges(value)
    /\ UNCHANGED appVars

animationFrame ==
    /\ \E f \in frames : \E dt \in FrameSteps : animate(f, dt)
    /\ UNCHANGED <<animValue, hasCleanup, targetChanges>>
    /\ UNCHANGED appVars

NextAnimated ==
    \/ render
    \/ animationFrame

\* a frame requested and not cancelled fires
SpecAnimated ==
    InitAnimated /\ [][NextAnimated]_vars /\ WF_vars(animationFrame)

-----------------------------------------------------------------------------
(* The derivation over arbitrary configurations: the App over a one-entry  *)
(* catalog whose production table is any table of at most MaxTableLen      *)
(* entries, each 0 or 1 pizzas, besides the shipped catalog.               *)

MaxTableLen == 2

SmallTables == UNION { [1..k -> {0, 1}] : k \in 0..MaxTableLen }

SmallCatalogs ==
    { << [name |-> "Small", fixedCost |-> 100, production |-> t] >> :
        t \in SmallTables }

InitDerive ==
    /\ InitApp
    /\ schedules \in SmallCatalogs \cup {PRODUCTION_SCHEDULES}
    /\ datasets = <<>>
    /\ chartKind = "Chart"
    /\ InitChartState
    /\ InitAnimatedNumber(Zero)

SpecDerive == InitDerive /\ [][Next]_vars

-----------------------------------------------------------------------------
(* A Chart on its own: one series of at most MaxPoints points at           *)
(* x = 0, 1, ..., with y values below, at and above zero or non-finite,    *)
(* under a label that gets the split treatment or one that does not.       *)

MaxPoints == 3

ChartYValues == {Num(-1), Zero, Num(1), Infinity}

SmallSeries ==
    UNION { { [i \in 1..k |-> [x |-> Num(i - 1), y |-> ys[i]]] :
                ys \in [1..k -> ChartYValues] } : k \in 0..MaxPoints }

ChartInputs ==
    { << [label |-> l, data |-> d] >> :
        l \in {"Total Profit", "Marginal Cost"}, d \in SmallSeries }

RECURSIVE SeriesOn(_, _)
\* the points (x, ys[x]) for the x >= from that ys is defined on, ascending
SeriesOn(ys, from) ==
    IF from > MaxPoints - 1 THEN <<>>
    ELSE (IF from \in DOMAIN ys
          THEN <<[x |-> Num(from), y |-> ys[from]]>> ELSE <<>>)
         \o SeriesOn(ys, from + 1)

\* the series with a point of height y at some of x = 0, 1, ...
SparseSeries(y) ==
    { SeriesOn([x \in S |-> y], 0) : S \in SUBSET (0..(MaxPoints - 1)) }

\* two series that each have points at some of the columns only
TwoSeriesInputs ==
    { << [label |-> "Marginal Cost", data |-> d1],
         [label |-> "Average Total Cost", data |-> d2] >> :
        d1 \in SparseSeries(Num(1)), d2 \in SparseSeries(Num(2)) }

InitChart ==
    /\ InitApp
    /\ schedules = PRODUCTION_SCHEDULES
    /\ \/ datasets \in ChartInputs /\ chartKind = "Chart"
       \/ datasets \in TwoSeriesInputs /\ chartKind \in {"Chart", "BarChart"}
    /\ InitChartState
    /\ InitAnimatedNumber(Zero)

NextChart ==
    \/ handleMouseOver
    \/ handleMouseLeave
    \/ BarChart_handleMouseOver
    \/ BarChart_handleMouseLeave

SpecChart == InitChart /\ [][NextChart]_vars

-----------------------------------------------------------------------------
(* Properties of the derivation *)

Labours == 0..MAX_LABOUR

\* C1: in every record sequence derived from a catalog configuration and a
\* slider price, marginalProduct[i] = totalProduction[i] - totalProduction[i-1]
\* for i in 1..10, and marginalProduct[0] = totalProduction[0].
C1_MarginalProductIsDifference ==
    LET data == economicData
    IN  \A i \in Labours :
            IF i = 0
            THEN Eq(data[1].marginalProduct, data[1].totalProduction)
            ELSE Eq(data[i + 1].marginalProduct,
                    Sub(data[i + 1].totalProduction, data[i].totalProduction))

\* a configuration at a price other than the initial one, whose marginal
\* product falls below zero at the last chef
C1_Witness ==
    /\ price # Num(15)
    /\ productionSchedule.name = "Standard Oven"
    /\ economicData[MAX_LABOUR + 1].marginalProduct = Num(-3)
    /\ economicData[4].marginalProduct = Num(20)

\* C2: for every catalog configuration, slider price and labour i:
\* variableCost = 160*i, totalCost = fixedCost + 160*i,
\* totalRevenue = totalProduction*price, totalProfit = totalProduction*price - totalCost.
C2_CostRevenueProfit ==
    LET data == economicData
        fc == productionSchedule.fixedCost
    IN  \A i \in Labours :
            LET tp == productionSchedule.production[i + 1]
            IN  /\ data[i + 1].variableCost = Num(160 * i)
                /\ data[i + 1].totalCost = Num(fc + 160 * i)
                /\ data[i + 1].totalProduction = Num(tp)
                /\ data[i + 1].totalRevenue = Q(tp * price.n, price.d)
                /\ data[i + 1].totalProfit
                     = Q(tp * price.n - (fc + 160 * i) * price.d, price.d)

\* a half-euro price
C2_Witness ==
    /\ price = Q(31, 2)
    /\ scheduleIndex = 2
    /\ labour = 7
    /\ currentData.totalRevenue = Num(6510)
    /\ currentData.totalProfit = Num(6510 - 400 - 1120)

\* C3: maxProfitData has totalProfit >= every record's totalProfit, and among
\* the records with the greatest totalProfit it is the one of lowest labour.
C3_MaxProfitFirstMaximum ==
    LET data == economicData
        m == maxProfitData
    IN  /\ m.labour \in Labours
        /\ m = data[m.labour + 1]
        /\ \A i \in Labours :
            /\ Ge(m.totalProfit, data[i + 1].totalProfit)
            /\ Eq(data[i + 1].totalProfit, m.totalProfit) => m.labour <= i

\* two records share the greatest profit
C3_Witness ==
    LET data == economicData
    IN  \E i, j \in Labours :
            /\ i < j
            /\ data[i + 1].totalProfit = data[j + 1].totalProfit
            /\ \A k \in Labours :
                  Ge(data[i + 1].totalProfit, data[k + 1].totalProfit)
            /\ maxProfitData.labour = i

\* record i of data can be the cost minimum
ValidForMinAtc(data, i) == i > 0 /\ isFinite(data[i + 1].averageTotalCost)

\* labour l is what minAverageCostRecord must have
IsMinAtcLabour(data, l) ==
    IF \E i \in Labours : ValidForMinAtc(data, i)
    THEN /\ l \in Labours
         /\ ValidForMinAtc(data, l)
         /\ \A i \in Labours :
               ValidForMinAtc(data, i)
                  => Le(data[l + 1].averageTotalCost, data[i + 1].averageTotalCost)
    ELSE l = 0

\* C4: minAtcData is a record with labour > 0 and finite averageTotalCost,
\* least among such records; with no such record it is the labour=0 record;
\* and 'Optimize for Cost' sets labour to that record's labour.
C4_MinAtcAndOptimize ==
    /\ [](LET data == economicData
              m == minAtcData
          IN  /\ m.labour \in Labours
              /\ m = data[m.labour + 1]
              /\ IsMinAtcLabour(data, m.labour))
    /\ [][(labour' # labour /\ handleOptimizeProduction)
             => IsMinAtcLabour(economicData, labour')]_vars

\* the fallback: no record has a finite average cost, labour is at the
\* labour=0 record
C4_WitnessFallback ==
    /\ \A i \in Labours : ~ValidForMinAtc(economicData, i)
    /\ labour = 0
    /\ minAtcData.labour = 0

\* C5: marginalProduct > 0 gives a finite marginalCost with
\* marginalCost * marginalProduct = variableCost[i] - variableCost[i-1] = 160;
\* marginalProduct <= 0 (labour 0 included) gives the infinite sentinel.
C5_MarginalCost ==
    LET data == economicData
    IN  /\ Le(data[1].marginalProduct, Zero)
        /\ \A i \in Labours :
            IF Gt(data[i + 1].marginalProduct, Zero)
            THEN /\ i > 0
                 /\ isFinite(data[i + 1].marginalCost)
                 /\ Mul(data[i + 1].marginalCost, data[i + 1].marginalProduct)
                       = Sub(data[i + 1].variableCost, data[i].variableCost)
                 /\ Mul(data[i + 1].marginalCost, data[i + 1].marginalProduct)
                       = Num(160)
            ELSE /\ Le(data[i + 1].marginalProduct, Zero)
                 /\ data[i + 1].marginalCost = Infinity

\* a sequence with a positive, a zero and a negative marginal product
C5_Witness ==
    LET data == economicData
    IN  /\ data[4].marginalCost = Num(8)
        /\ data[10].marginalProduct = Zero
        /\ data[10].marginalCost = Infinity
        /\ Lt(data[11].marginalProduct, Zero)
        /\ data[11].marginalCost = Infinity

\* the point of a series at labour i, if any
PointsAt(points, i) ==
    { k \in 1..Len(points) : points[k].x = Num(i) }

\* C15: in the cost chart the 'Marginal Cost' series has a point at labour i
\* iff marginalProduct[i] > 0 and the 'Average Total Cost' series has a point
\* at labour i iff totalProduction[i] > 0; every point has a finite y, and
\* the points kept are in ascending labour order.
C15_CostSeriesKeepFinitePoints ==
    LET data == economicData
        mc == costChartData[1].data
        atc == costChartData[2].data
    IN  /\ costChartData[1].label = "Marginal Cost"
        /\ costChartData[2].label = "Average Total Cost"
        /\ \A i \in Labours :
            /\ PointsAt(mc, i) # {} <=> Gt(data[i + 1].marginalProduct, Zero)
            /\ PointsAt(atc, i) # {} <=> Gt(data[i + 1].totalProduction, Zero)
            /\ \A k \in PointsAt(mc, i) : mc[k].y = data[i + 1].marginalCost
            /\ \A k \in PointsAt(atc, i) :
                  atc[k].y = data[i + 1].averageTotalCost
        /\ \A series \in {mc, atc} :
            /\ \A k \in 1..Len(series) :
                  /\ isFinite(series[k].y)
                  /\ \E i \in Labours : series[k].x = Num(i)
            /\ \A k \in 1..(Len(series) - 1) :
                  Lt(series[k].x, series[k + 1].x)

\* both series have lost points: the marginal cost at labour 0 and at the
\* last chefs, the average total cost at labour 0 only
C15_Witness ==
    LET data == economicData
        mc == costChartData[1].data
        atc == costChartData[2].data
    IN  /\ Len(mc) < Len(atc)
        /\ Len(atc) < MAX_LABOUR + 1
        /\ Len(mc) > 2
        /\ PointsAt(mc, 0) = {}
        /\ PointsAt(mc, 1) # {}
        /\ PointsAt(mc, MAX_LABOUR) = {}
        /\ PointsAt(atc, MAX_LABOUR) # {}

\* C16: the derivation is total: for a production table with fewer than
\* MAX_LABOUR + 1 entries, every record beyond the table has totalProduction
\* 0 and its other fields are well-defined numbers that keep the record
\* invariants, in particular
\* marginalProduct[i] = totalProduction[i] - totalProduction[i-1].
C16_RecordsBeyondTableWellDefined ==
    LET data == economicData
        NumberFields == {"totalProduction", "marginalProduct", "totalRevenue",
                         "variableCost", "fixedCost", "totalCost",
                         "totalProfit", "marginalCost", "averageTotalCost"}
    IN  \A i \in Labours :
            i >= Len(productionSchedule.production) =>
                /\ data[i + 1].labour = i
                /\ data[i + 1].totalProduction = Zero
                /\ \A f \in NumberFields : ~IsNaN(data[i + 1][f])
                /\ IF i = 0
                   THEN Eq(data[1].marginalProduct, data[1].totalProduction)
                   ELSE Eq(data[i + 1].marginalProduct,
                           Sub(data[i + 1].totalProduction,
                               data[i].totalProduction))

\* C18: in the initial state (Standard Oven with fixed cost 100, price 15,
\* labour 3) the current record has totalProduction 45, totalRevenue 675,
\* variableCost 480, totalCost 580, totalProfit 95, marginalProduct 20,
\* marginalCost 8 and averageTotalCost 580/45.
C18_InitialRecord ==
    (labour = 3 /\ price = Num(15) /\ scheduleIndex = 0) =>
        /\ productionSchedule.name = "Standard Oven"
        /\ currentData = [labour |-> 3,
                          totalProduction |-> Num(45),
                          marginalProduct |-> Num(20),
                          totalRevenue |-> Num(675),
                          variableCost |-> Num(480),
                          fixedCost |-> Num(100),
                          totalCost |-> Num(580),
                          totalProfit |-> Num(95),
                          marginalCost |-> Num(8),
                          averageTotalCost |-> Q(580, 45)]

\* the state the App starts in
C18_Witness ==
    /\ InitApp
    /\ currentData.totalProfit = Num(95)

-----------------------------------------------------------------------------
(* Properties of the Chart *)

\* the series of the App's charts that get the split treatment
SplitSeriesOfApp ==
    { ds.data : ds \in { productionChartData[2], profitChartData[1] } }

\* data[j], data[j + 1] lie strictly on opposite sides of zero
StrictCrossing(data, j) ==
    \/ Gt(data[j].y, Zero) /\ Lt(data[j + 1].y, Zero)
    \/ Lt(data[j].y, Zero) /\ Gt(data[j + 1].y, Zero)

StrictCrossings(data) ==
    { j \in 1..(Len(data) - 1) : StrictCrossing(data, j) }

IsFirstStrictCrossing(data, j) ==
    /\ j \in StrictCrossings(data)
    /\ \A k \in StrictCrossings(data) : j <= k

\* C6: with (p1, p2) the first consecutive pair strictly on opposite sides of
\* zero, the point (x0, 0), x0 = p1.x - p1.y*(p2.x - p1.x)/(p2.y - p1.y), is the
\* last element of the sublist the curve exits and the first element of the
\* sublist it enters.
C6_SeamAtFirstStrictCrossing ==
    \A data \in SplitSeriesOfApp :
        \A j \in 1..(Len(data) - 1) :
            IsFirstStrictCrossing(data, j) =>
                LET p1 == data[j]
                    p2 == data[j + 1]
                    x0 == Sub(p1.x, Div(Mul(p1.y, Sub(p2.x, p1.x)), Sub(p2.y, p1.y)))
                    seam == [x |-> x0, y |-> Zero]
                    halves == SplitSeries(data)
                    exits == IF Gt(p1.y, Zero) THEN halves.positiveData
                             ELSE halves.negativeData
                    enters == IF Gt(p1.y, Zero) THEN halves.negativeData
                              ELSE halves.positiveData
                IN  /\ exits # <<>>
                    /\ exits[Len(exits)] = seam
                    /\ enters # <<>>
                    /\ enters[1] = seam

OrderedByX(points) ==
    \A k \in 1..(Len(points) - 1) : Le(points[k].x, points[k + 1].x)

\* C7: both point lists handed to the smoothing step for the 'Marginal Product
\* of Labour' and 'Total Profit' series are ordered by non-decreasing x.
C7_HalvesOrderedByX ==
    \A data \in SplitSeriesOfApp :
        /\ OrderedByX(SplitSeries(data).positiveData)
        /\ OrderedByX(SplitSeries(data).negativeData)

\* C8 as the specification states it: each of the two series has at most one consecutive pair
\* strictly on opposite sides of zero.
C8_AtMostOneCrossing ==
    \A data \in SplitSeriesOfApp : Cardinality(StrictCrossings(data)) <= 1

\* C8, amended: the 'Marginal Product of Labour' series has at most one such
\* pair and the 'Total Profit' series at most two.
C8_AtMostTwoCrossings ==
    /\ Cardinality(StrictCrossings(productionChartData[2].data)) <= 1
    /\ Cardinality(StrictCrossings(profitChartData[1].data)) <= 2

\* the profit curve rises through zero and falls back through it
C8_WitnessTwoCrossings ==
    LET data == profitChartData[1].data
    IN  /\ Cardinality(StrictCrossings(data)) = 2
        /\ \E j, k \in StrictCrossings(data) :
              /\ j < k
              /\ Lt(data[j].y, Zero)
              /\ Gt(data[k].y, Zero)

ScaledPoint(dom, pt) == [x |-> xScale(dom, pt.x), y |-> yScale(dom, pt.y)]

\* C9: fewer than 2 points give the empty path; 2 points give a move-to the
\* first scaled point and a line-to the second; n >= 3 points give a move-to the
\* first scaled point and n-1 cubic segments, segment i ending at scaled
\* point i+1.
C9_SmoothPathShape ==
    LET dom == ChartDomain(datasets)
        inputs == PathInputs(datasets)
    IN  \A k \in 1..Len(inputs) :
            LET points == inputs[k]
                n == Len(points)
                path == createSmoothPath(dom, points)
            IN  /\ n < 2 => path = <<>>
                /\ n = 2 =>
                     /\ Len(path) = 2
                     /\ path[1] = [c |-> "M"] @@ ScaledPoint(dom, points[1])
                     /\ path[2] = [c |-> "L"] @@ ScaledPoint(dom, points[2])
                /\ n >= 3 =>
                     /\ Len(path) = n
                     /\ path[1] = [c |-> "M"] @@ ScaledPoint(dom, points[1])
                     /\ \A i \in 1..(n - 1) :
                           /\ path[i + 1].c = "C"
                           /\ path[i + 1].x = ScaledPoint(dom, points[i + 1]).x
                           /\ path[i + 1].y = ScaledPoint(dom, points[i + 1]).y

\* a split series one half of which has at least 3 points and is drawn as
\* curves up to its last point, over non-degenerate scales
C9_Witness ==
    LET dom == ChartDomain(datasets)
        inputs == PathInputs(datasets)
    IN  /\ Len(inputs) = 2
        /\ ~Eq(dom.maxY, dom.minY)
        /\ ~Eq(dom.maxX, dom.minX)
        /\ \E k \in 1..2 :
              /\ Len(inputs[k]) >= 3
              /\ createSmoothPath(dom, inputs[k])[Len(inputs[k])].c = "C"
        /\ \E k \in 1..2 : Len(inputs[k]) = 1

\* the values the scales are applied to in the properties
ScaleInputs == {Num(-1), Zero, Num(1), Num(5), Infinity, NaN}

\* C10: with a source interval of zero width the scale returns the midpoint
\* of the target interval for every input and divides by nothing; for the y
\* axis that is exactly when every finite y value is 0 (or there is none).
C10_DegenerateScale ==
    LET dom == ChartDomain(datasets)
        bar == BarChartDomain(datasets)
        points == allPoints(datasets)
        allZero == \A k \in 1..Len(points) :
                       isFinite(points[k].y) => points[k].y = Zero
    IN  /\ Eq(dom.maxX, dom.minX) =>
              \A v \in ScaleInputs : xScale(dom, v) = Num(130)
        /\ Eq(dom.maxY, dom.minY) =>
              \A v \in ScaleInputs : yScale(dom, v) = Num(75)
        /\ Eq(bar.maxY, bar.minY) =>
              \A v \in ScaleInputs : BarChart_yScale(bar, v) = Num(75)
        /\ Eq(dom.maxY, dom.minY) <=> allZero
        /\ Eq(bar.maxY, bar.minY) <=> allZero
        /\ \A v \in ScaleInputs :
              isFinite(v) =>
                 /\ isFinite(yScale(dom, v))
                 /\ isFinite(BarChart_yScale(bar, v))
                 /\ points # <<>> => isFinite(xScale(dom, v))

\* a chart with a point whose every finite y is 0 and whose x values are
\* all the same, and a tooltip placed with the degenerate scales
C10_Witness ==
    LET dom == ChartDomain(datasets)
    IN  /\ allPoints(datasets) # <<>>
        /\ Eq(dom.maxY, dom.minY)
        /\ Eq(dom.maxX, dom.minX)
        /\ tooltip # NullTooltip

-----------------------------------------------------------------------------
(* Properties of the scenario store *)

ScenarioNames(list) == { list[i].name : i \in 1..Len(list) }

\* C11: after any sequence of saves and clears, interleaved with price,
\* labour and capital changes, the scenario list holds at most one entry per
\* capital name: exactly the names saved since the last clear, each with the
\* values (max profit, optimal labour, price, marginal cost, average total
\* cost) of the most recent save for that name.
C11_OneEntryPerNameLatestSave ==
    /\ \A i, j \in 1..Len(savedScenarios) :
          savedScenarios[i].name = savedScenarios[j].name => i = j
    /\ { savedScenarios[i] : i \in 1..Len(savedScenarios) } = saveLog
    /\ ScenarioNames(savedScenarios) = { s.name : s \in saveLog }

\* every capital saved, and an entry that is not the first saved at a price
\* other than the first's
C11_Witness ==
    /\ Len(savedScenarios) = Len(schedules)
    /\ \E i \in 2..Len(savedScenarios) :
          savedScenarios[i].priceAtSave # savedScenarios[1].priceAtSave

SaveStep == savedScenarios' # savedScenarios /\ savedScenarios' # <<>>

ClearStep == savedScenarios' = <<>> /\ savedScenarios # <<>>

\* C12: a save under a name already in the list replaces the entry at its
\* position, leaving the length, the order of names and every other entry
\* unchanged; a save under a new name appends at the end, leaving the
\* existing entries unchanged; neither save nor clear changes price, labour
\* or the selected capital.
C12_SaveReplacesInPlaceOrAppends ==
    [][ /\ SaveStep =>
            LET prev == savedScenarios
                new == savedScenarios'
                name == productionSchedule.name
            IN  IF name \in ScenarioNames(prev)
                THEN /\ Len(new) = Len(prev)
                     /\ \A i \in 1..Len(prev) :
                          /\ new[i].name = prev[i].name
                          /\ prev[i].name # name => new[i] = prev[i]
                ELSE /\ Len(new) = Len(prev) + 1
                     /\ new[Len(new)].name = name
                     /\ \A i \in 1..Len(prev) : new[i] = prev[i]
        /\ (SaveStep \/ ClearStep) =>
            /\ price' = price
            /\ labour' = labour
            /\ scheduleIndex' = scheduleIndex ]_vars

\* the selected capital has an entry that is not the last one, saved at
\* another price than the current one: the next save replaces it in place
C12_Witness ==
    \E i \in 1..(Len(savedScenarios) - 1) :
        /\ savedScenarios[i].name = productionSchedule.name
        /\ savedScenarios[i].priceAtSave # price

-----------------------------------------------------------------------------
(* Properties of the cost analysis *)

\* C13: when the text-generation call fails, the analysis becomes the fixed
\* apology text with the loading flag false, and no further request is issued
\* automatically; in every case (success or failure) the completion of a
\* request sets the loading flag to false.
C13_FailureShowsApologyNoRetry ==
    [][ /\ ((\E k \in 1..MaxRequests : generateContentRejects(k))
                \/ handleAnalyzeCosts_Throws) =>
            /\ analysis' = [text |-> ApologyText, isLoading |-> FALSE]
            /\ Len(requests') <= Len(requests)
        /\ Len(requests') < Len(requests) => ~analysis'.isLoading
        /\ Len(requests') > Len(requests) =>
            /\ ~analysis.isLoading
            /\ analysis'.isLoading
            /\ Len(requests') = Len(requests) + 1 ]_vars

\* a failure has been shown and another call is still awaited
C13_Witness ==
    /\ analysis = [text |-> ApologyText, isLoading |-> FALSE]
    /\ Len(requests) > 0

\* C14: a second text-generation request can be started while an earlier one
\* is still pending (two calls awaited at once is a reachable state), and
\* nothing cancels the earlier request: a call stops being awaited only by
\* its own completion, which sets the analysis to its text or to the apology.
C14_NothingCancelsPendingRequest ==
    [][ \/ requests' = requests
        \/ /\ requests' = Append(requests, [setup |-> productionSchedule.name])
           /\ analysis'.isLoading
        \/ \E k \in 1..Len(requests) :
              /\ requests' = RemoveAt(requests, k)
              /\ ~analysis'.isLoading
              /\ analysis'.text \in {responseText(requests[k]), ApologyText}
      ]_vars

\* two calls are awaited at once, the button being enabled again
C14_Witness ==
    /\ Len(requests) = 2
    /\ ~analysis.isLoading

\* C19: after the user selects a capital configuration, the analysis is the
\* empty text with the loading flag false and stays so until the user next
\* clicks 'Analyze Costs': the response (or failure) of a request issued
\* before the capital change never becomes the displayed analysis.
C19_NoStaleAnalysisAfterScheduleChange ==
    [][ /\ scheduleIndex' # scheduleIndex => analysis' = NoAnalysis
        /\ analysis = NoAnalysis =>
            \/ analysis' = NoAnalysis
            \/ handleAnalyzeCosts ]_vars

-----------------------------------------------------------------------------
(* Properties of the tooltip *)

Columns == uniqueXValues(xValues(allPoints(datasets)))

\* the series of the chart that have a point at x, in series order
SeriesWithPointAt(x) ==
    SelectSeq([k \in 1..Len(datasets) |-> k],
              LAMBDA k : \E j \in 1..Len(datasets[k].data) :
                            datasets[k].data[j].x = x)

\* The tooltip that hovering column x must give
TooltipResolves(t, x) ==
    LET series == SeriesWithPointAt(x)
        dom == ChartDomain(datasets)
        Scaled(m) == yScale(dom, t.points[m].y)
        Total[m \in 0..Len(series)] ==
            IF m = 0 THEN Zero ELSE Add(Total[m - 1], Scaled(m))
    IN  /\ t.x = x
        /\ Len(t.points) = Len(series)
        /\ \A m \in 1..Len(series) :
              /\ t.points[m].label = datasets[series[m]].label
              /\ t.points[m].x = x
              /\ \E j \in 1..Len(datasets[series[m]].data) :
                    /\ datasets[series[m]].data[j].x = x
                    /\ datasets[series[m]].data[j].y = t.points[m].y
        /\ Mul(t.svgY, Num(Len(series))) = Total[Len(series)]

\* C17: hovering the hit region of column x sets the tooltip to column x
\* with exactly one entry for each series that has a point at x (series
\* without one are skipped, the order of series is kept), and the tooltip's
\* vertical position times the number of entries equals the sum of the
\* entries' scaled y positions; if no series has a point at x the tooltip is
\* left unchanged; leaving the plot clears the tooltip.
C17_TooltipResolution ==
    [][ /\ \A k \in 1..Len(Columns) :
            ((chartKind = "Chart" /\ handleMouseOverColumn(Columns[k]))
             \/ (chartKind = "BarChart"
                 /\ BarChart_handleMouseOverColumn(Columns[k]))) =>
                IF SeriesWithPointAt(Columns[k]) = <<>>
                THEN tooltip' = tooltip
                ELSE /\ Len(tooltip') = 1
                     /\ TooltipResolves(tooltip'[1], Columns[k])
        /\ (handleMouseLeave \/ BarChart_handleMouseLeave) =>
                tooltip' = NullTooltip ]_vars

\* the tooltip of a column where the first series has no point and the
\* second has one, in a chart whose first series has points elsewhere
C17_WitnessSkippedSeries ==
    /\ Len(datasets) = 2
    /\ Len(datasets[1].data) > 0
    /\ Len(tooltip) = 1
    /\ Len(tooltip[1].points) = 1
    /\ tooltip[1].points[1].label = datasets[2].label

-----------------------------------------------------------------------------
(* Properties of the goal effect *)

\* a run of the effect; it changes none of the values it reads
EffectRuns ==
    /\ effectDeps' # effectDeps
    /\ labour' = labour
    /\ price' = price
    /\ scheduleIndex' = scheduleIndex

\* C20: the goal effect plays the 'goal' sound only on a transition into the
\* goal-achieved condition (current totalProfit > 0 and within 0.01 of the
\* maximum totalProfit): a run that plays finds the goal achieved and is the
\* first run or follows a run that found it not achieved, so between any two
\* plays there is a run in which the goal is not achieved; and after every
\* run the goalAchieved latch equals whether the goal is currently achieved.
C20_GoalSoundOnlyOnTransition ==
    /\ [][ effectDeps' # effectDeps => EffectRuns ]_vars
    /\ [][ (EffectRuns /\ goalPlayed') =>
              /\ isGoalAchieved(goalDeps)
              /\ effectDeps = <<>> \/ ~isGoalAchieved(effectDeps) ]_vars
    /\ [][ EffectRuns =>
              goalAchievedRef' = isGoalAchieved(goalDeps) ]_vars
    /\ []((EffectsFlushed /\ isGoalAchieved(goalDeps)) => goalAchievedRef)

\* a run of the effect at another price than the initial one finds the goal
\* still achieved after an earlier run played the sound, and stays silent
C20_Witness ==
    /\ EffectsFlushed
    /\ goalAchievedRef
    /\ ~goalPlayed
    /\ price # Num(15)

-----------------------------------------------------------------------------
(* Properties of AnimatedNumber *)

TargetArrives == animValue' # animValue

\* the animation begun by the effect run for the target that arrives
StartsFromDisplayed(f) ==
    /\ f.startValue = displayValue
    /\ f.endValue = animValue'
    /\ ~f.started
    /\ f.run = targetChanges'

\* a cancelled animation writes no further display values: a step that
\* changes the displayed value fires a callback of the latest effect run
OnlyLatestAnimationWrites ==
    displayValue' # displayValue =>
        /\ animValue' = animValue
        /\ \E f \in frames \ frames' :
              f.run = targetChanges /\ f.endValue = animValue

\* if the target stays unchanged, the displayed value eventually equals it
\* and stays there, no callback pending
SettlesOnTarget ==
    \A value \in Targets :
        <>[](animValue = value) =>
            <>[](displayValue = value /\ frames = {})

\* C21 as stated: whenever a new target value arrives while an animation is
\* in flight, the in-flight animation is cancelled and writes no further
\* display values, and a new animation starts from the currently displayed
\* value; if the target then stays unchanged and animation frames keep
\* firing, the displayed value eventually equals the target exactly and
\* stays there.
C21_NewTargetRestartsAnimation ==
    /\ [][ (TargetArrives /\ frames # {}) =>
              /\ frames \cap frames' = {}
              /\ \E f \in frames' : StartsFromDisplayed(f) ]_vars
    /\ [][ OnlyLatestAnimationWrites ]_vars
    /\ SettlesOnTarget

\* C21, amended: as stated, except that no new animation starts when the
\* displayed value already equals the new target (the in-flight animation is
\* still cancelled and the displayed value stays at the target).
C21_NewTargetRestartsUnlessDisplayed ==
    /\ [][ (TargetArrives /\ frames # {}) =>
              /\ frames \cap frames' = {}
              /\ displayValue' = displayValue
              /\ IF displayValue = animValue'
                 THEN frames' = {}
                 ELSE /\ Cardinality(frames') = 1
                      /\ \E f \in frames' : StartsFromDisplayed(f) ]_vars
    /\ [][ OnlyLatestAnimationWrites ]_vars
    /\ [](Cardinality(frames) <= 1)
    /\ SettlesOnTarget

\* a target arrived while an animation was part of the way: the animation
\* pending starts from a displayed value that is no target
C21_WitnessInterrupted ==
    /\ displayValue \notin Targets
    /\ \E f \in frames :
          /\ f.startValue = displayValue
          /\ f.endValue = animValue
          /\ ~f.started

====
